---- MODULE Spec2Model ----
(***************************************************************************)
(* GxvnsChatApp: the chat server (src/server.py) and the chat client's     *)
(* connection loop (src/client.py) as state machines.                      *)
(*                                                                         *)
(* Server.  Every accepted websocket has a handler coroutine               *)
(* (websocket_endpoint).  The handlers share one asyncio event loop, so a  *)
(* handler runs without interruption from one await that suspends to the   *)
(* next: every server action below is the code between two such awaits.    *)
(* The users file (server_data/users.json) outlives the process; a restart *)
(* of the process constructs ChatServer again and reloads it.              *)
(*                                                                         *)
(* Client.  websocket_loop runs on its own event loop; send_message is     *)
(* called by the UI thread and send_ws_message runs on the loop.           *)
(***************************************************************************)
EXTENDS Integers, Sequences, FiniteSets, TLC

\* ------------------------------------------------------------------ bounds
NumConns == 3
SmallConns == 2
SmallUsers == 2
MaxFriends == 2
MaxRestarts == 1
MaxQueue == 3
MaxSendTasks == 1
MaxRun == 3

Conns == 1..NumConns
UserOrder == <<"a", "b", "c">>
Users == {UserOrder[i] : i \in 1..Len(UserOrder)}
\* The keys the identity dicts can hold: a frame without `username` makes
\* data.get('username') None, which is a valid dict key.
Names == Users \cup {"None"}
Passwords == {"p", "q"}
GroupNames == {"g"}
\* Python's None: an absent frame field (dict.get), the handler's initial
\* `username`, an absent dictionary entry.
None == "None"
\* No websocket (a connection number is never 0).
NoConn == 0

VARIABLES
    user_credentials,   \* ChatServer.user_credentials: username -> password (None: no key)
    user_data,          \* ChatServer.user_data: username -> {password, friends}
    users_file,         \* contents of server_data/users.json
    active_connections, \* module-level dict, in insertion order: <<[user, ws]>>
    chan,               \* per websocket: "idle" | "open" | "gone" (peer left) | "closed" (server closed it)
    observed,           \* per websocket: its handler's receive_json has raised for the disconnect
    pc,                 \* per handler: the await it is suspended at
    uname,              \* per handler: the local variable `username`
    op,                 \* per handler: the frame being processed across awaits
    last,               \* the operation completed most recently, with what it sent (history)
    firstPassword,      \* history: username -> password of its first successful register
    groupRequested,     \* history: group names a create_group frame has been processed for
    groupFirst,         \* history: group name -> members of its first create_group (<<>>: none)
    restarts            \* number of process restarts so far

VARIABLES
    cpc,             \* websocket_loop: the await it is suspended at
    websocket,       \* ChatClient.websocket: None or the connection object ("ws")
    transport,       \* state of the connection object made last: "none" | "open" | "closed"
    connected,       \* ChatClient.connected
    reconnect_delay, \* ChatClient.reconnect_delay, in seconds
    message_queue,   \* ChatClient.message_queue, until the UI drains it
    sendTasks,       \* send_ws_message coroutines scheduled and not yet run
    run,             \* history: the waits after the failed attempts since the last success
    startRun,        \* history: the waits after the failed attempts before the first success
    everUp,          \* history: a connection has succeeded since construction
    endWait,         \* history: the wait taken after the last successful connection ended (0: none yet)
    lastSend         \* history: the outcome of the outbound send attempted last

clientVars == <<cpc, websocket, transport, connected, reconnect_delay, message_queue,
                sendTasks, run, startRun, everUp, endWait, lastSend>>

serverVars == <<user_credentials, user_data, users_file, active_connections, chan,
                observed, pc, uname, op, last, firstPassword, groupRequested, groupFirst, restarts>>

\* ------------------------------------------------------------ data shapes
\* A JSON frame received from a client; fields it does not carry are None.
Frame(type, username, password, to, group, friend, group_name, members) ==
    [type |-> type, username |-> username, password |-> password, to |-> to,
     group |-> group, friend |-> friend, group_name |-> group_name, members |-> members]

NoFrame == Frame("none", None, None, None, None, None, None, <<>>)

\* user_data[u] for a username with no entry.
NoUser == [present |-> FALSE, password |-> None, friends |-> <<>>]

\* An envelope sent by the server.
Envelope(type, success, username, friends, message) ==
    [type |-> type, success |-> success, username |-> username,
     friends |-> friends, message |-> message]

IdleOp == [kind |-> "none", frame |-> NoFrame, env |-> NoFrame, sent |-> <<>>,
           idx |-> 0, n |-> 0, snap |-> <<>>, old |-> NoConn, prev |-> NoConn,
           user |-> None, prior |-> FALSE]

NoLast == [conn |-> NoConn, kind |-> "none", frame |-> NoFrame, env |-> NoFrame,
           sent |-> <<>>, raised |-> "", failed |-> NoConn, snap |-> <<>>,
           user |-> None, prior |-> FALSE]

\* -------------------------------------------------- the dict of sessions
HasKey(reg, u) == \E i \in 1..Len(reg) : reg[i].user = u

Lookup(reg, u) == IF HasKey(reg, u)
                  THEN reg[CHOOSE i \in 1..Len(reg) : reg[i].user = u].ws
                  ELSE NoConn

\* active_connections[username] = websocket: a present key keeps its place.
Store(reg, u, ws) ==
    IF HasKey(reg, u)
    THEN [i \in 1..Len(reg) |-> IF reg[i].user = u THEN [user |-> u, ws |-> ws] ELSE reg[i]]
    ELSE Append(reg, [user |-> u, ws |-> ws])

\* WebSocket.send_json succeeds on an open websocket and raises on one whose
\* peer has left or that the server has closed.
CanSend(ws) == chan[ws] = "open"

\* WebSocket.close(): closes an open websocket; on any other it raises, and
\* login_user swallows that (bare except).
CloseOf(ch, ws) == IF ch[ws] = "open" THEN [ch EXCEPT ![ws] = "closed"] ELSE ch

\* The first position >= i of the dict whose websocket is not `sender`
\* (Len(reg)+1 when there is none): the loop of broadcast skips the sender's
\* entries without awaiting.
RECURSIVE NextTarget(_, _, _)
NextTarget(reg, i, sender) ==
    IF i > Len(reg) THEN Len(reg) + 1
    ELSE IF reg[i].ws # sender THEN i
    ELSE NextTarget(reg, i + 1, sender)

\* ------------------------------------------------ handler control points
\* The handler returns to `await websocket.receive_json()`: by finishing the
\* frame or through `except Exception: continue` with exception exc.
Finish(c, o, exc, failedWs) ==
    /\ pc' = [pc EXCEPT ![c] = "recv"]
    /\ op' = [op EXCEPT ![c] = IdleOp]
    /\ last' = [conn |-> c, kind |-> o.kind, frame |-> o.frame, env |-> o.env,
                sent |-> o.sent, raised |-> exc, failed |-> failedWs,
                snap |-> o.snap, user |-> o.user, prior |-> o.prior]

\* The handler suspends at the await named `at`.
Suspend(c, at, o) ==
    /\ pc' = [pc EXCEPT ![c] = at]
    /\ op' = [op EXCEPT ![c] = o]
    /\ last' = last

\* `data = await websocket.receive_json()` returns a frame.
Receiving(c) ==
    /\ pc[c] = "recv"
    /\ chan[c] = "open"

NewOp(c, kind, frame) ==
    [IdleOp EXCEPT !.kind = kind, !.frame = frame, !.user = uname[c]]

\* ----------------------------------------------------------------- Init
InitServer ==
    /\ user_credentials = [u \in Names |-> None]
    /\ user_data = [u \in Names |-> NoUser]
    /\ users_file = [u \in Names |-> NoUser]
    /\ active_connections = <<>>
    /\ chan = [c \in Conns |-> "idle"]
    /\ observed = [c \in Conns |-> FALSE]
    /\ pc = [c \in Conns |-> "recv"]
    /\ uname = [c \in Conns |-> None]
    /\ op = [c \in Conns |-> IdleOp]
    /\ last = NoLast
    /\ firstPassword = [u \in Names |-> None]
    /\ groupRequested = {}
    /\ groupFirst = [g \in GroupNames |-> <<>>]
    /\ restarts = 0

\* await websocket.accept()
Accept(c) ==
    /\ chan[c] = "idle"
    /\ chan' = [chan EXCEPT ![c] = "open"]
    /\ UNCHANGED <<user_credentials, user_data, users_file, active_connections,
                   observed, pc, uname, op, last, firstPassword, groupRequested, groupFirst, restarts>>
    /\ UNCHANGED clientVars

\* The peer goes away (closes, crashes, loses the network) at any time.
PeerClose(c) ==
    /\ chan[c] = "open"
    /\ chan' = [chan EXCEPT ![c] = "gone"]
    /\ UNCHANGED <<user_credentials, user_data, users_file, active_connections,
                   observed, pc, uname, op, last, firstPassword, groupRequested, groupFirst, restarts>>
    /\ UNCHANGED clientVars

\* A handler whose receive_json raises into the cleanup of lines 223-226: the
\* key `username` is deleted from the registry when it is there.
RecvDisconnectCleanup(c) ==
    /\ pc[c] = "recv"
    /\ chan[c] \in {"gone", "closed"}
    /\ ~observed[c]
    /\ observed' = [observed EXCEPT ![c] = TRUE]
    /\ active_connections' = SelectSeq(active_connections, LAMBDA e : e.user # uname[c])
    /\ Finish(c, NewOp(c, "disconnect", NoFrame), "WebSocketDisconnect", NoConn)
    /\ UNCHANGED <<user_credentials, user_data, users_file,
                   chan, uname, firstPassword, groupRequested, groupFirst, restarts>>
    /\ UNCHANGED clientVars

\* receive_json raises WebSocketDisconnect inside the inner try: the inner
\* `except Exception` (lines 219-221) catches it and the loop continues, so
\* the outer handlers (lines 223-234) are never entered.  Every later
\* receive_json raises again and is caught the same way, changing nothing.
RecvDisconnect(c) ==
    /\ pc[c] = "recv"
    /\ chan[c] \in {"gone", "closed"}
    /\ ~observed[c]
    /\ observed' = [observed EXCEPT ![c] = TRUE]
    /\ Finish(c, NewOp(c, "disconnect", NoFrame), "WebSocketDisconnect", NoConn)
    /\ UNCHANGED <<user_credentials, user_data, users_file, active_connections,
                   chan, uname, firstPassword, groupRequested, groupFirst, restarts>>
    /\ UNCHANGED clientVars

\* ------------------------------------------------------------- register
RegisterResponse(ok) ==
    Envelope("register_response", ok, None, <<>>,
             IF ok THEN None ELSE "Username already exists")

\* register_user, then `await websocket.send_json(response)`.
Register(c, u, p) ==
    /\ Receiving(c)
    /\ LET taken == user_credentials[u] # None
           o == [NewOp(c, "register", Frame("register", u, p, None, None, None, None, <<>>))
                    EXCEPT !.prior = firstPassword[u] # None,
                           !.sent = <<[to |-> c, env |-> RegisterResponse(~taken)]>>]
       IN /\ IF taken
             THEN UNCHANGED <<user_credentials, user_data, users_file, firstPassword>>
             ELSE /\ user_credentials' = [user_credentials EXCEPT ![u] = p]
                  /\ user_data' = [user_data EXCEPT
                                      ![u] = [present |-> TRUE, password |-> p, friends |-> <<>>]]
                  /\ users_file' = user_data'
                  /\ firstPassword' = IF firstPassword[u] = None
                                      THEN [firstPassword EXCEPT ![u] = p]
                                      ELSE firstPassword
          /\ Finish(c, o, "", NoConn)
    /\ UNCHANGED <<active_connections, chan, observed, uname, groupRequested, groupFirst, restarts>>
    /\ UNCHANGED clientVars

\* ---------------------------------------------------------------- login
\* Line 79: the username is not a key of user_credentials.
LoginFailure == Envelope("login_response", FALSE, None, <<>>, "Invalid username or password")

\* A rejection of a wrong password that says so.
LoginWrongPasswordTold == Envelope("login_response", FALSE, None, <<>>, "Wrong password")

\* Line 82: the username is a key and the password differs.
LoginWrongPassword == Envelope("login_response", FALSE, None, <<>>, "Invalid username or password")

\* The response login_user returns for credentials that do not verify.
LoginRejected(u) == IF user_credentials[u] = None THEN LoginFailure ELSE LoginWrongPassword

LoginSuccess(u) == Envelope("login_response", TRUE, u, user_data[u].friends, None)

\* verify: lines 78-82.
CredentialsOk(u, p) == user_credentials[u] # None /\ user_credentials[u] = p

\* The loop of broadcast (lines 102-104) resumed at dict position idx: the
\* iterator raises RuntimeError when the dict has changed size since the loop
\* began; entries of the sender are skipped; the next other entry is sent
\* to, which suspends the handler, or raises when that websocket is not open.
BroadcastFrom(c, o, idx) ==
    LET j == NextTarget(active_connections, idx, c)
    IN IF Len(active_connections) # o.n
       THEN Finish(c, o, "RuntimeError", NoConn)
       ELSE IF j > o.n
       THEN Finish(c, o, "", NoConn)
       ELSE IF CanSend(active_connections[j].ws)
       THEN Suspend(c, "bcast", [o EXCEPT !.idx = j + 1,
                        !.sent = Append(@, [to |-> active_connections[j].ws, env |-> o.env])])
       ELSE Finish(c, o, "SendError", active_connections[j].ws)

\* await chat_server.broadcast(message, websocket) begins: the iterator over
\* active_connections.values() is created and runs to its first send.
BroadcastStart(c, o, env) ==
    BroadcastFrom(c, [o EXCEPT !.env = env, !.n = Len(active_connections),
                               !.snap = active_connections], 1)

\* The handler resumes from a send of broadcast.
BcastStep(c) ==
    /\ pc[c] = "bcast"
    /\ BroadcastFrom(c, op[c], op[c].idx)
    /\ UNCHANGED <<user_credentials, user_data, users_file, active_connections, chan,
                   observed, uname, firstPassword, groupRequested, groupFirst, restarts>>
    /\ UNCHANGED clientVars

\* login_user up to its first await.  Wrong credentials: the failure response
\* is sent.  A session of u exists: its websocket is closed (line 87), which
\* suspends.  Otherwise the session is stored and the response is sent.
Login(c, u, p) ==
    /\ Receiving(c)
    /\ LET o == [NewOp(c, "login", Frame("login", u, p, None, None, None, None, <<>>))
                    EXCEPT !.prior = user_credentials[u] # None]
       IN IF ~CredentialsOk(u, p)
          THEN /\ Finish(c, [o EXCEPT !.sent = <<[to |-> c, env |-> LoginRejected(u)]>>], "", NoConn)
               /\ UNCHANGED <<active_connections, chan>>
          ELSE IF HasKey(active_connections, u)
          THEN /\ chan' = CloseOf(chan, Lookup(active_connections, u))
               /\ Suspend(c, "close", [o EXCEPT !.old = Lookup(active_connections, u)])
               /\ UNCHANGED active_connections
          ELSE /\ active_connections' = Store(active_connections, u, c)
               /\ Suspend(c, "respond", [o EXCEPT !.sent = <<[to |-> c, env |-> LoginSuccess(u)]>>])
               /\ UNCHANGED chan
    /\ UNCHANGED <<user_credentials, user_data, users_file, observed, uname,
                   firstPassword, groupRequested, groupFirst, restarts>>
    /\ UNCHANGED clientVars

\* login_user resumes from close(): line 91 stores the session, and the
\* response is sent (line 185), which raises when this websocket is not open.
LoginStore(c) ==
    /\ pc[c] = "close"
    /\ LET u == op[c].frame.username
       IN /\ active_connections' = Store(active_connections, u, c)
          /\ IF CanSend(c)
             THEN Suspend(c, "respond",
                          [op[c] EXCEPT !.sent = <<[to |-> c, env |-> LoginSuccess(u)]>>,
                                        !.prev = Lookup(active_connections, u)])
             ELSE Finish(c, op[c], "SendError", c)
    /\ UNCHANGED <<user_credentials, user_data, users_file, chan, observed, uname,
                   firstPassword, groupRequested, groupFirst, restarts>>
    /\ UNCHANGED clientVars

UserOnline(u) == Envelope("user_online", TRUE, u, <<>>, None)

\* The handler resumes from the response: lines 186-192.
LoginNotify(c) ==
    /\ pc[c] = "respond"
    /\ uname' = [uname EXCEPT ![c] = op[c].frame.username]
    /\ BroadcastStart(c, op[c], UserOnline(op[c].frame.username))
    /\ UNCHANGED <<user_credentials, user_data, users_file, active_connections, chan,
                   observed, firstPassword, groupRequested, groupFirst, restarts>>
    /\ UNCHANGED clientVars

\* -------------------------------------------------------------- messages
\* A send_direct_message that falls back to the first session of the dict
\* when no key equals `recipient`.
DirectTargetFallback(reg, recipient) ==
    IF HasKey(reg, recipient) THEN Lookup(reg, recipient)
    ELSE IF reg # <<>> THEN reg[1].ws
    ELSE NoConn

\* send_direct_message's loop (lines 108-111): the websocket stored under
\* `recipient`, NoConn when no key equals it.
DirectTarget(reg, recipient) == Lookup(reg, recipient)

\* await self.send_direct_message(recipient, env) as the last call of a
\* frame: nothing is sent when there is no such key, else the envelope is
\* sent or the send raises.
DirectFinish(c, o, recipient, env) ==
    LET t == DirectTarget(active_connections, recipient)
    IN IF t = NoConn THEN Finish(c, o, "", NoConn)
       ELSE IF CanSend(t)
       THEN Finish(c, [o EXCEPT !.sent = Append(@, [to |-> t, env |-> env])], "", NoConn)
       ELSE Finish(c, o, "SendError", t)

MessageFrame(c, to, group) == Frame("message", uname[c], None, to, group, None, None, <<>>)

\* {type: message} with neither group nor to: lines 200-202.
MessageBroadcast(c) ==
    /\ Receiving(c)
    /\ BroadcastStart(c, NewOp(c, "broadcast", MessageFrame(c, None, None)),
                      MessageFrame(c, None, None))
    /\ UNCHANGED <<user_credentials, user_data, users_file, active_connections, chan,
                   observed, uname, firstPassword, groupRequested, groupFirst, restarts>>
    /\ UNCHANGED clientVars

\* {type: message, to: x}: lines 197-199.
MessageDirect(c, x) ==
    /\ Receiving(c)
    /\ DirectFinish(c, [NewOp(c, "direct", MessageFrame(c, x, None))
                           EXCEPT !.env = MessageFrame(c, x, None),
                                  !.snap = active_connections],
                    x, MessageFrame(c, x, None))
    /\ UNCHANGED <<user_credentials, user_data, users_file, active_connections, chan,
                   observed, uname, firstPassword, groupRequested, groupFirst, restarts>>
    /\ UNCHANGED clientVars

\* self.groups: ChatServer.__init__ (lines 29-36) never assigns the
\* attribute and nothing else does, so reading it raises AttributeError.
GroupsAttribute == "AttributeError"

\* {type: message, group: g}: line 196 calls broadcast_to_group, whose first
\* statement (line 115) reads self.groups.
MessageGroup(c, g) ==
    /\ Receiving(c)
    /\ Finish(c, [NewOp(c, "group", MessageFrame(c, None, g))
                     EXCEPT !.env = MessageFrame(c, None, g),
                            !.snap = active_connections],
              GroupsAttribute, NoConn)
    /\ UNCHANGED <<user_credentials, user_data, users_file, active_connections, chan,
                   observed, uname, firstPassword, groupRequested, groupFirst, restarts>>
    /\ UNCHANGED clientVars

\* {type: create_group}: handle_create_group raises at line 134
\* (self.groups[group_name] = members) before anything is stored or sent.
CreateGroup(c, g, members) ==
    /\ Receiving(c)
    /\ groupRequested' = groupRequested \cup {g}
    /\ groupFirst' = IF groupFirst[g] = <<>> THEN [groupFirst EXCEPT ![g] = members]
                     ELSE groupFirst
    /\ Finish(c, [NewOp(c, "create_group",
                        Frame("create_group", None, None, None, None, None, g, members))
                     EXCEPT !.prior = g \in groupRequested],
              GroupsAttribute, NoConn)
    /\ UNCHANGED <<user_credentials, user_data, users_file, active_connections, chan,
                   observed, uname, firstPassword, restarts>>
    /\ UNCHANGED clientVars

\* ------------------------------------------------------------ add_friend
AppendFriend(data, u, f) == [data EXCEPT ![u].friends = Append(@, f)]

\* Lines 147-148: both appends, one after the other.
AddFriendPair(data, me, f) == AppendFriend(AppendFriend(data, me, f), f, me)

FriendAdded(f) == Envelope("friend_added", TRUE, f, <<>>, None)

FriendRequest(me) == Envelope("friend_request", TRUE, me, <<>>, None)

\* {type: add_friend}: handle_add_friend up to its first await.  An unknown
\* friend: nothing.  A handler whose `username` is no key of user_data (it
\* has not logged in): user_data[username] raises KeyError before anything
\* is appended.
AddFriend(c, f) ==
    /\ Receiving(c)
    /\ LET me == uname[c]
           o == NewOp(c, "add_friend", Frame("add_friend", me, None, None, None, f, None, <<>>))
       IN IF ~user_data[f].present
          THEN /\ Finish(c, o, "", NoConn)
               /\ UNCHANGED <<user_data, users_file>>
          ELSE IF ~user_data[me].present
          THEN /\ Finish(c, o, "KeyError", NoConn)
               /\ UNCHANGED <<user_data, users_file>>
          ELSE /\ Len(AddFriendPair(user_data, me, f)[me].friends) <= MaxFriends
               /\ Len(AddFriendPair(user_data, me, f)[f].friends) <= MaxFriends
               /\ user_data' = AddFriendPair(user_data, me, f)
               /\ users_file' = user_data'
               /\ LET t == DirectTarget(active_connections, me)
                  IN IF t = NoConn
                     THEN DirectFinish(c, o, f, FriendRequest(me))
                     ELSE IF CanSend(t)
                     THEN Suspend(c, "notify",
                                  [o EXCEPT !.sent = <<[to |-> t, env |-> FriendAdded(f)]>>])
                     ELSE Finish(c, o, "SendError", t)
    /\ UNCHANGED <<user_credentials, active_connections, chan, observed, uname,
                   firstPassword, groupRequested, groupFirst, restarts>>
    /\ UNCHANGED clientVars

\* handle_add_friend resumes from the first notification: lines 155-158.
AddFriendNotify(c) ==
    /\ pc[c] = "notify"
    /\ DirectFinish(c, op[c], op[c].frame.friend, FriendRequest(op[c].frame.username))
    /\ UNCHANGED <<user_credentials, user_data, users_file, active_connections, chan,
                   observed, uname, firstPassword, groupRequested, groupFirst, restarts>>
    /\ UNCHANGED clientVars

\* ------------------------------------------------------ malformed frames
\* What becomes of a frame the dispatch (lines 176-214) has no branch for:
\* text that is not JSON raises JSONDecodeError in receive_json (caught at
\* line 216), a frame without `type` raises KeyError at line 179 (caught at
\* line 219), and a `type` no branch names (the client's own `join`
\* included) falls through the if/elif chain.
DropReason(how) ==
    IF how = "bad_json" THEN "JSONDecodeError"
    ELSE IF how = "missing_type" THEN "KeyError"
    ELSE ""

Malformed(c, how) ==
    /\ Receiving(c)
    /\ Finish(c, NewOp(c, how, NoFrame), DropReason(how), NoConn)
    /\ UNCHANGED <<user_credentials, user_data, users_file, active_connections, chan,
                   observed, uname, firstPassword, groupRequested, groupFirst, restarts>>
    /\ UNCHANGED clientVars

\* -------------------------------------------------------------- restart
\* load_user_data: json.load of what save_user_data wrote.  Usernames and
\* passwords are strings and friends a list of strings, which JSON keeps; a
\* None key is written as the string "null", so no None key is ever loaded.
LoadUserData(file) == [u \in Names |-> IF u = None THEN NoUser ELSE file[u]]

\* The process ends and starts again: every connection and handler is gone,
\* both module-level dicts and ChatServer are constructed anew (lines 25-36,
\* 160), and user_data is loaded from the users file.  user_credentials
\* starts empty: nothing fills it from the file.
Restart ==
    /\ restarts < MaxRestarts
    /\ restarts' = restarts + 1
    /\ user_credentials' = [u \in Names |-> None]
    /\ user_data' = LoadUserData(users_file)
    /\ active_connections' = <<>>
    /\ chan' = [c \in Conns |-> "idle"]
    /\ observed' = [c \in Conns |-> FALSE]
    /\ pc' = [c \in Conns |-> "recv"]
    /\ uname' = [c \in Conns |-> None]
    /\ op' = [c \in Conns |-> IdleOp]
    /\ last' = [NoLast EXCEPT !.kind = "restart"]
    /\ groupRequested' = {}
    /\ groupFirst' = [g \in GroupNames |-> <<>>]
    /\ UNCHANGED <<users_file, firstPassword>>
    /\ UNCHANGED clientVars

\* ===================================================================
\* The client: ChatClient.websocket_loop, send_message, send_ws_message
\* ===================================================================
\* reconnect_delay and max_reconnect_delay as __init__ sets them.
MinDelay == 1
MaxDelay == 30

Min(a, b) == IF a < b THEN a ELSE b

\* A linear schedule in place of the doubling.
NextDelayLinear(d) == Min(d + 1, MaxDelay)

\* A doubling that is capped too late.
NextDelayLateCap(d) == Min(d * 2, 2 * MaxDelay)

\* Line 231.
NextDelay(d) == Min(d * 2, MaxDelay)

\* message_queue.put: the queue is unbounded in the code; here an action
\* that puts waits for the UI to drain a full queue.
CanPut == Len(message_queue) < MaxQueue

Put(item) == message_queue' = Append(message_queue, item)

\* history record of a send attempt: `up` is whether the transport was open
\* when it was made, `notices` the number of items it put on message_queue,
\* `queued` whether it left a send scheduled for later.
NoSend == [outcome |-> "none", up |-> FALSE, wrote |-> FALSE, notices |-> 0, queued |-> FALSE]

\* websocket.send on the connection object made last: it writes when the
\* transport is open and raises ConnectionClosed otherwise.
CanWrite(tr) == tr = "open"

\* A send_ws_message that schedules itself again when its send has failed.
TasksAfterRetry(n, failed) == IF failed THEN n ELSE n - 1

\* The send_ws_message coroutines left scheduled when one has run: it ends
\* whether the send succeeded or not (lines 123-148 schedule nothing).
TasksAfter(n, failed) == n - 1

InitClient ==
    /\ cpc = "connecting"
    /\ websocket = None
    /\ transport = "none"
    /\ connected = FALSE
    /\ reconnect_delay = MinDelay
    /\ message_queue = <<>>
    /\ sendTasks = 0
    /\ run = <<>>
    /\ startRun = <<>>
    /\ everUp = FALSE
    /\ endWait = 0
    /\ lastSend = NoSend

\* The loop reaches line 230 through an except clause (lines 218-227):
\* websocket and connected are cleared, a status is queued, and the loop
\* sleeps for the current reconnect_delay.
FailedAttempt(queue, status) ==
    /\ websocket' = None
    /\ connected' = FALSE
    /\ message_queue' = Append(queue, <<"STATUS", status>>)
    /\ cpc' = "sleep"
    /\ run' = IF Len(run) < MaxRun THEN Append(run, reconnect_delay) ELSE run
    /\ startRun' = IF ~everUp /\ Len(startRun) < MaxRun
                   THEN Append(startRun, reconnect_delay) ELSE startRun

\* websockets.connect raises: no transport.
ConnectFail ==
    /\ cpc = "connecting"
    /\ CanPut
    /\ FailedAttempt(message_queue, "Error")
    /\ transport' = "none"
    /\ UNCHANGED <<reconnect_delay, sendTasks, everUp, endWait, lastSend>>
    /\ UNCHANGED serverVars

\* websockets.connect succeeds and the join frame is sent: lines 183-194.
ConnectOk ==
    /\ cpc = "connecting"
    /\ CanPut
    /\ websocket' = "ws"
    /\ transport' = "open"
    /\ connected' = TRUE
    /\ Put(<<"STATUS", "Connected">>)
    /\ reconnect_delay' = MinDelay
    /\ cpc' = "recv"
    /\ run' = <<>>
    /\ everUp' = TRUE
    /\ endWait' = 0
    /\ UNCHANGED <<sendTasks, startRun, lastSend>>
    /\ UNCHANGED serverVars

\* websockets.connect succeeds but the peer is gone before the join frame
\* goes out: lines 183-185 run, send raises ConnectionClosed, and the
\* `async with` is left for line 218 without line 194.
ConnectDropped ==
    /\ cpc = "connecting"
    /\ Len(message_queue) + 2 <= MaxQueue
    /\ FailedAttempt(Append(message_queue, <<"STATUS", "Connected">>), "Disconnected")
    /\ transport' = "closed"
    /\ UNCHANGED <<reconnect_delay, sendTasks, everUp, endWait, lastSend>>
    /\ UNCHANGED serverVars

\* The server or the network closes the connection.
TransportLost ==
    /\ transport = "open"
    /\ transport' = "closed"
    /\ UNCHANGED <<cpc, websocket, connected, reconnect_delay, message_queue,
                   sendTasks, run, everUp, endWait, lastSend>>
    /\ UNCHANGED <<startRun, serverVars>>

\* recv returns a frame of type message or system: a CHAT line is queued.
RecvChat ==
    /\ cpc = "recv"
    /\ transport = "open"
    /\ CanPut
    /\ Put(<<"CHAT", "line">>)
    /\ UNCHANGED <<cpc, websocket, transport, connected, reconnect_delay,
                   sendTasks, run, everUp, endWait, lastSend>>
    /\ UNCHANGED <<startRun, serverVars>>

\* The receive loop ends: recv raises ConnectionClosed (line 211), or a frame
\* without the expected keys raises (line 214) and leaving the `async with`
\* closes the connection.  Neither clears websocket or connected; the loop
\* sleeps for the current delay.
RecvEnds ==
    /\ cpc = "recv"
    /\ transport' = "closed"
    /\ cpc' = "sleep"
    /\ endWait' = reconnect_delay
    /\ UNCHANGED <<websocket, connected, reconnect_delay, message_queue,
                   sendTasks, run, everUp, lastSend>>
    /\ UNCHANGED <<startRun, serverVars>>

\* A loop that stops retrying once MaxRun attempts in a row have failed.
SleepDoneGivesUp ==
    /\ cpc = "sleep"
    /\ reconnect_delay' = NextDelay(reconnect_delay)
    /\ cpc' = IF Len(run) >= MaxRun THEN "stopped" ELSE "connecting"
    /\ UNCHANGED <<websocket, transport, connected, message_queue, sendTasks,
                   run, everUp, endWait, lastSend>>
    /\ UNCHANGED <<startRun, serverVars>>

\* asyncio.sleep returns: line 231 doubles the delay, and the loop connects.
SleepDone ==
    /\ cpc = "sleep"
    /\ reconnect_delay' = NextDelay(reconnect_delay)
    /\ cpc' = "connecting"
    /\ UNCHANGED <<websocket, transport, connected, message_queue, sendTasks,
                   run, everUp, endWait, lastSend>>
    /\ UNCHANGED <<startRun, serverVars>>

\* send_message (UI thread) with a non-empty text: not connected, a status
\* notice and nothing else; connected, send_ws_message is scheduled.
SendMessage ==
    /\ IF ~connected
       THEN /\ CanPut
            /\ Put(<<"STATUS", "Not connected to server. Message will be sent when connected.">>)
            /\ UNCHANGED sendTasks
            /\ lastSend' = [outcome |-> "not_connected", up |-> CanWrite(transport),
                            wrote |-> FALSE,
                            notices |-> Len(message_queue') - Len(message_queue),
                            queued |-> sendTasks' > sendTasks]
       ELSE /\ sendTasks < MaxSendTasks
            /\ sendTasks' = sendTasks + 1
            /\ UNCHANGED <<message_queue, lastSend>>
    /\ UNCHANGED <<cpc, websocket, transport, connected, reconnect_delay,
                   run, everUp, endWait>>
    /\ UNCHANGED <<startRun, serverVars>>

\* send_ws_message runs on the loop: lines 125-148.
SendWsMessage ==
    /\ sendTasks > 0
    /\ sendTasks' = TasksAfter(sendTasks, websocket # None /\ ~CanWrite(transport))
    /\ IF websocket = None
       THEN /\ CanPut
            /\ Put(<<"STATUS", "Not connected to server">>)
            /\ lastSend' = [outcome |-> "not_connected", up |-> CanWrite(transport),
                            wrote |-> FALSE,
                            notices |-> Len(message_queue') - Len(message_queue),
                            queued |-> sendTasks' >= sendTasks]
            /\ UNCHANGED <<websocket, connected, reconnect_delay, transport>>
       ELSE IF CanWrite(transport)
       THEN /\ reconnect_delay' = MinDelay
            /\ UNCHANGED <<websocket, connected, message_queue, transport>>
            /\ lastSend' = [outcome |-> "sent", up |-> TRUE, wrote |-> TRUE,
                            notices |-> Len(message_queue') - Len(message_queue),
                            queued |-> sendTasks' >= sendTasks]
       ELSE /\ CanPut
            /\ Put(<<"STATUS", "Error sending message">>)
            /\ connected' = FALSE
            /\ websocket' = None
            /\ lastSend' = [outcome |-> "error", up |-> FALSE, wrote |-> FALSE,
                            notices |-> Len(message_queue') - Len(message_queue),
                            queued |-> sendTasks' >= sendTasks]
            /\ UNCHANGED <<reconnect_delay, transport>>
    /\ UNCHANGED <<cpc, run, everUp, endWait>>
    /\ UNCHANGED <<startRun, serverVars>>

\* process_message_queue (UI thread, every 100 ms) drains the queue.
ProcessMessageQueue ==
    /\ message_queue # <<>>
    /\ message_queue' = <<>>
    /\ UNCHANGED <<cpc, websocket, transport, connected, reconnect_delay,
                   sendTasks, run, everUp, endWait, lastSend>>
    /\ UNCHANGED <<startRun, serverVars>>

ClientNext ==
    \/ ConnectFail
    \/ ConnectOk
    \/ ConnectDropped
    \/ TransportLost
    \/ RecvChat
    \/ RecvEnds
    \/ SleepDone
    \/ SendMessage
    \/ SendWsMessage
    \/ ProcessMessageQueue

vars == <<serverVars, clientVars>>

Init == InitServer /\ InitClient

SpecClient == Init /\ [][ClientNext]_vars

\* The client with what its event loop guarantees: asyncio.sleep returns
\* after its delay, and recv on a closed connection raises.
SpecClientLive ==
    /\ Init
    /\ [][ClientNext]_vars
    /\ WF_vars(SleepDone)
    /\ WF_vars(RecvEnds /\ transport = "closed")

\* ===================================================================
\* Specifications: the server under four environments, and the client
\* ===================================================================
\* Connections and usernames are interchangeable names, so every environment
\* uses them in order: the next websocket accepted is the lowest unused one,
\* and a username is first registered only after those before it.
NextConn == {c \in Conns : chan[c] = "idle" /\ \A d \in 1..(c - 1) : chan[d] # "idle"}

KnownUsers == {UserOrder[i] : i \in {j \in 1..Len(UserOrder) :
                    \A k \in 1..(j - 1) : firstPassword[UserOrder[k]] # None}}

\* The username connection c logs in with in the fan-out environment.
UserOf(c) == UserOrder[((c - 1) % Len(UserOrder)) + 1]

PairConns == 1..SmallConns
PairUsers == {UserOrder[i] : i \in 1..SmallUsers}

\* Routing: two connections and two users send every kind of frame but
\* add_friend, and may disconnect at any time.
Next ==
    \/ \E c \in NextConn \cap PairConns : Accept(c)
    \/ \E c \in PairConns : PeerClose(c)
    \/ \E c \in PairConns : RecvDisconnect(c)
    \/ \E c \in PairConns, u \in KnownUsers \cap PairUsers : Register(c, u, "p")
    \/ \E c \in PairConns, u \in PairUsers, p \in Passwords : Login(c, u, p)
    \/ \E c \in PairConns : LoginStore(c)
    \/ \E c \in PairConns : LoginNotify(c)
    \/ \E c \in PairConns : BcastStep(c)
    \/ \E c \in PairConns : MessageBroadcast(c)
    \/ \E c \in PairConns, x \in PairUsers : MessageDirect(c, x)
    \/ \E c \in PairConns, g \in GroupNames : MessageGroup(c, g)
    \/ \E c \in PairConns, g \in GroupNames, m \in {<<"a", "b">>, <<"c">>} : CreateGroup(c, g, m)

Spec == Init /\ [][Next]_vars

\* Identity: connection 1 registers, logs in and adds friends, connection 2
\* registers, and the process may restart.
NextIdentity ==
    \/ \E c \in NextConn \cap PairConns : Accept(c)
    \/ \E c \in PairConns, u \in KnownUsers \cap PairUsers, p \in Passwords : Register(c, u, p)
    \/ \E u \in PairUsers, p \in Passwords : Login(1, u, p)
    \/ LoginStore(1)
    \/ LoginNotify(1)
    \/ \E f \in PairUsers : AddFriend(1, f)
    \/ AddFriendNotify(1)
    \/ Restart

SpecIdentity == Init /\ [][NextIdentity]_vars

\* Fan-out: connection 1 registers the users, connection i logs in as the
\* i-th user, every connection broadcasts, and peers may disconnect.
NextFanout ==
    \/ \E c \in NextConn : Accept(c)
    \/ \E c \in Conns : PeerClose(c)
    \/ \E u \in KnownUsers : Register(1, u, "p")
    \/ \E c \in Conns : Login(c, UserOf(c), "p")
    \/ \E c \in Conns : LoginStore(c)
    \/ \E c \in Conns : LoginNotify(c)
    \/ \E c \in Conns : BcastStep(c)
    \/ \E c \in Conns : MessageBroadcast(c)

SpecFanout == Init /\ [][NextFanout]_vars

\* Frames: two connections send malformed frames, a register without
\* `username`, and valid register, login and direct frames.
FrameFaults == {"bad_json", "missing_type", "unknown_type"}

NextFrames ==
    \/ \E c \in NextConn \cap PairConns : Accept(c)
    \/ \E c \in PairConns, how \in FrameFaults : Malformed(c, how)
    \/ \E c \in PairConns, u \in (KnownUsers \cap PairUsers) \cup {None} : Register(c, u, "p")
    \/ \E c \in PairConns, u \in PairUsers : Login(c, u, "p")
    \/ \E c \in PairConns : LoginStore(c)
    \/ \E c \in PairConns : LoginNotify(c)
    \/ \E c \in PairConns : BcastStep(c)
    \/ \E c \in PairConns, x \in PairUsers : MessageDirect(c, x)

SpecFrames == Init /\ [][NextFrames]_vars

\* Supersession: every connection logs in as the same user.
NextSupersede ==
    \/ \E c \in NextConn : Accept(c)
    \/ \E c \in Conns : PeerClose(c)
    \/ \E c \in Conns : RecvDisconnect(c)
    \/ Register(1, "a", "p")
    \/ \E c \in Conns : Login(c, "a", "p")
    \/ \E c \in Conns : LoginStore(c)
    \/ \E c \in Conns : LoginNotify(c)
    \/ \E c \in Conns : BcastStep(c)

SpecSupersede == Init /\ [][NextSupersede]_vars

\* ===================================================================
\* Claims
\* ===================================================================
\* C1: a register for a username that was registered before gets a failure
\* response and leaves the stored password of that username as its first
\* registration set it.
C1_OnlyFirstRegister ==
    (last.kind = "register" /\ last.prior) =>
        /\ ~last.sent[1].env.success
        /\ users_file[last.frame.username].password = firstPassword[last.frame.username]

\* C2: a login with the credentials the identity store holds for the user
\* gets a success response.
C2_CorrectLoginSucceeds ==
    (/\ last.kind = "login"
     /\ last.raised = ""
     /\ user_data[last.frame.username].present
     /\ user_data[last.frame.username].password = last.frame.password) =>
        (Len(last.sent) >= 1 /\ last.sent[1].env.success)

\* C3: when a logged-in sender has sent a message with neither `to` nor
\* `group`, every session registered when the broadcast began whose channel
\* is another one, and still open, has received exactly one copy of the
\* envelope as sent, and the sender's channel has received none.
C3_BroadcastOneCopyEach ==
    (last.kind = "broadcast" /\ last.user # None) =>
        /\ \A i \in 1..Len(last.snap) :
              (last.snap[i].ws # last.conn /\ chan[last.snap[i].ws] = "open") =>
                  Cardinality({j \in 1..Len(last.sent) :
                                  /\ last.sent[j].to = last.snap[i].ws
                                  /\ last.sent[j].env = last.frame}) = 1
        /\ \A j \in 1..Len(last.sent) : last.sent[j].to # last.conn

\* C4: a step that processes a message with `to=X` while X has no session in
\* the registry sends no envelope to any channel (so no error envelope to the
\* sender either), raises nothing, and leaves the registry as it was.
C4_DirectToAbsent ==
    [][(/\ last' # last
        /\ last'.kind = "direct"
        /\ ~HasKey(active_connections, last'.frame.to)) =>
           (/\ last'.sent = <<>>
            /\ last'.raised = ""
            /\ active_connections' = active_connections)]_vars

\* C4 witness: a logged-in sender has sent a direct message to a user with no
\* session while other sessions were registered, and nothing was sent.
C4_Witness ==
    /\ last.kind = "direct"
    /\ last.user # None
    /\ last.snap # <<>>
    /\ ~HasKey(last.snap, last.frame.to)
    /\ last.sent = <<>>

\* C5: a message with `group=G`, where no group G exists, yields exactly one
\* envelope, an error response to the sender.
C5_GroupMissingError ==
    last.kind = "group" =>
        /\ Len(last.sent) = 1
        /\ last.sent[1].to = last.conn
        /\ last.sent[1].env.type = "error"

\* C6: a create_group for a name that an earlier create_group has already
\* named is answered with a GroupAlreadyExists error to the requester.
C6_DuplicateGroupRejected ==
    (last.kind = "create_group" /\ last.prior) =>
        \E j \in 1..Len(last.sent) :
            /\ last.sent[j].to = last.conn
            /\ last.sent[j].env.type = "error"
            /\ last.sent[j].env.message = "GroupAlreadyExists"

\* C7: in every reachable state b is in the friend list of a if and only if
\* a is in the friend list of b.
C7_FriendsSymmetric ==
    \A a \in Users, b \in Users :
        (\E i \in 1..Len(user_data[a].friends) : user_data[a].friends[i] = b)
            <=> (\E i \in 1..Len(user_data[b].friends) : user_data[b].friends[i] = a)

\* C8 as stated: from the minimum delay, the first three consecutive failed
\* attempts are followed by waits of 1s, 2s and 4s; and the first failed
\* attempt after a successful connection is followed by a wait of 1s.
C8_ResetThenOneSecond ==
    /\ \A i \in 1..Len(startRun) : i <= 3 => startRun[i] = MinDelay * 2^(i - 1)
    /\ (everUp /\ Len(run) >= 1) => run[1] = MinDelay

\* C8 amended: from the minimum delay, the first three consecutive failed
\* attempts are followed by waits of 1s, 2s and 4s; a successful connection
\* resets the delay to 1s, so the wait that follows the end of that
\* connection is 1s, and the first failed attempt after it is followed by a
\* wait of 2s.
C8_Backoff ==
    /\ \A i \in 1..Len(startRun) : i <= 3 => startRun[i] = MinDelay * 2^(i - 1)
    /\ everUp => endWait \in {0, MinDelay}
    /\ (everUp /\ Len(run) >= 1) => (endWait = MinDelay /\ run[1] = 2 * MinDelay)

\* C8 witness: three failed attempts came before the first success, and an
\* attempt has failed after a successful connection ended.
C8_Witness ==
    /\ Len(startRun) = 3
    /\ everUp
    /\ endWait = MinDelay
    /\ Len(run) >= 1

\* C9: when a send of a broadcast has failed on a target, that target is
\* absent from the registry once the broadcast is over, and every other
\* target of the fan-out whose channel is open has received the envelope.
C9_FailureHandledPerTarget ==
    (last.kind = "broadcast" /\ last.raised = "SendError") =>
        /\ \A i \in 1..Len(active_connections) : active_connections[i].ws # last.failed
        /\ \A i \in 1..Len(last.snap) :
              (/\ last.snap[i].ws \notin {last.conn, last.failed}
               /\ chan[last.snap[i].ws] = "open") =>
                  \E j \in 1..Len(last.sent) : last.sent[j].to = last.snap[i].ws

\* C10: once the handler of a connection logged in as u has seen the
\* disconnect (its receive has raised), the registry holds no session of u on
\* that connection.
C10_DisconnectCleanup ==
    \A c \in Conns :
        (observed[c] /\ uname[c] # None) =>
            \A i \in 1..Len(active_connections) :
                active_connections[i] # [user |-> uname[c], ws |-> c]

\* C11: a step that rejects a login sends the caller the same envelope
\* whether the username is unregistered or registered with another password
\* (the envelope of the unregistered case), sends nothing to anyone else, and
\* leaves the registry as it was.
C11_FailedLoginUniform ==
    [][(/\ last' # last
        /\ last'.kind = "login"
        /\ last'.raised = ""
        /\ ~CredentialsOk(last'.frame.username, last'.frame.password)) =>
           (/\ last'.sent = <<[to |-> last'.conn, env |-> LoginFailure]>>
            /\ active_connections' = active_connections)]_vars

\* C11 witness: a login naming a registered user with another password has
\* been rejected while a session was registered.
C11_Witness ==
    /\ last.kind = "login"
    /\ last.prior
    /\ last.frame.password # user_credentials[last.frame.username]
    /\ last.sent = <<[to |-> last.conn, env |-> LoginFailure]>>
    /\ active_connections # <<>>

\* C12: when a logged-in member s of a group G, created by an earlier
\* create_group, has sent a message with `group=G`, every other member of G
\* that had a session on another, still open channel has received the
\* message, and nothing was sent to s's own channel or to a channel of a
\* non-member.
C12_GroupDelivery ==
    (/\ last.kind = "group"
     /\ groupFirst[last.frame.group] # <<>>
     /\ \E i \in 1..Len(groupFirst[last.frame.group]) :
           groupFirst[last.frame.group][i] = last.user) =>
        LET members == {groupFirst[last.frame.group][i] :
                           i \in 1..Len(groupFirst[last.frame.group])}
        IN /\ \A m \in members \ {last.user} :
                 (/\ HasKey(last.snap, m)
                  /\ Lookup(last.snap, m) # last.conn
                  /\ chan[Lookup(last.snap, m)] = "open") =>
                     \E j \in 1..Len(last.sent) :
                         /\ last.sent[j].to = Lookup(last.snap, m)
                         /\ last.sent[j].env = last.frame
           /\ \A j \in 1..Len(last.sent) :
                 /\ last.sent[j].to # last.conn
                 /\ \E m \in members : Lookup(last.snap, m) = last.sent[j].to

\* C13: every channel stored in the registry is open, unless the operation
\* that will remove it is still under way: its peer has left and its handler
\* has not yet seen the disconnect, or a login that closed it has not yet
\* stored its own session.
C13_RegistryChannelsOpen ==
    \A i \in 1..Len(active_connections) :
        LET w == active_connections[i].ws
        IN \/ chan[w] = "open"
           \/ chan[w] = "gone" /\ ~observed[w]
           \/ \E c \in Conns : pc[c] = "close" /\ op[c].old = w

\* C14: a frame that is not JSON, has no `type`, has a `type` the server does
\* not know, or is a register without `username`, is dropped: nothing has been
\* sent for it, the handler is back at its receive, and no account or session
\* exists under the absent username.
C14_MalformedDropped ==
    (\/ last.kind \in FrameFaults
     \/ last.kind = "register" /\ last.frame.username = None) =>
        /\ last.sent = <<>>
        /\ pc[last.conn] = "recv"
        /\ ~user_data[None].present
        /\ user_credentials[None] = None
        /\ ~HasKey(active_connections, None)

C16_NeverGivesUp ==
    /\ [](cpc \in {"connecting", "recv", "sleep"})
    /\ (cpc = "sleep" \/ (cpc = "recv" /\ transport = "closed")) ~> (cpc = "connecting")

\* C16 witness: the loop is connecting again after MaxRun attempts in a row
\* failed since a connection that had succeeded.
C16_Witness ==
    /\ cpc = "connecting"
    /\ everUp
    /\ Len(run) = MaxRun

\* C17: the delay is always one of the values obtained by doubling from 1s
\* and capping at 30s, so it lies in [1s, 30s].
C17_DelayInRange ==
    /\ reconnect_delay \in {Min(MinDelay * 2^k, MaxDelay) : k \in 0..5}
    /\ MinDelay <= reconnect_delay
    /\ reconnect_delay <= MaxDelay

\* C17 witness: the delay has reached the cap, and a send had succeeded on
\* the connection before the failures.
C17_Witness ==
    /\ reconnect_delay = MaxDelay
    /\ everUp
    /\ lastSend.outcome = "sent"

\* C18: a broadcast that no failed send has cut short is not aborted by what
\* other handlers do to the registry while it is suspended, and delivers to
\* exactly the channels registered when it began, minus the sender's.
C18_BroadcastSnapshot ==
    (last.kind = "broadcast" /\ last.raised # "SendError") =>
        /\ last.raised = ""
        /\ {last.sent[j].to : j \in 1..Len(last.sent)}
              = {last.snap[i].ws : i \in 1..Len(last.snap)} \ {last.conn}

\* The channel the handler of c is suspended in a send_json to (NoConn when
\* it is at no send): the target of a broadcast's send (line 104), its own
\* channel for a login response (line 185), the requester's session for
\* friend_added (line 154).
InFlight(c) ==
    IF pc[c] = "bcast" THEN op[c].sent[Len(op[c].sent)].to
    ELSE IF pc[c] = "respond" THEN c
    ELSE IF pc[c] = "notify" THEN op[c].sent[Len(op[c].sent)].to
    ELSE NoConn

\* C19: no two handlers are in the middle of a send to the same channel.
C19_WritesSerialized ==
    \A c \in Conns, d \in Conns :
        (c # d /\ InFlight(c) # NoConn) => InFlight(c) # InFlight(d)

\* C20: when the handler of a connection that logged in as u sees its
\* disconnect after another channel has taken over the session of u, the
\* step leaves the registry as it was (u still maps to the newer channel)
\* and sends no user_offline.
C20_TeardownKeepsNewer ==
    [][\A c \in Conns :
          (/\ observed'[c] /\ ~observed[c]
           /\ uname[c] # None
           /\ Lookup(active_connections, uname[c]) \notin {NoConn, c}) =>
              (/\ active_connections' = active_connections
               /\ \A j \in 1..Len(last'.sent) : last'.sent[j].env.type # "user_offline")]_vars

\* C20 witness: a connection that logged in as "a" and was closed by a later
\* login has seen its disconnect, and "a" maps to another, open channel.
C20_Witness ==
    /\ last.kind = "disconnect"
    /\ last.user = "a"
    /\ observed[last.conn]
    /\ chan[last.conn] = "closed"
    /\ Lookup(active_connections, "a") \notin {NoConn, last.conn}
    /\ chan[Lookup(active_connections, "a")] = "open"

\* C21: in every reachable state no channel is stored in the registry under
\* two usernames.
C21_OneUsernamePerChannel ==
    \A i \in 1..Len(active_connections), j \in 1..Len(active_connections) :
        i # j => active_connections[i].ws # active_connections[j].ws

====
